---- MODULE Spec2Model ----
(***************************************************************************)
(* Model of lvgl-codegen (src/lvgl-codegen/src/lib.rs): the declaration    *)
(* model (LvType, LvArg, LvFunc, LvWidget), the widget extractor and the   *)
(* code emitter.                                                           *)
(*                                                                         *)
(* Rust strings are sequences of one-character strings, so that            *)
(* starts_with, ends_with, contains, replace and the create-function       *)
(* regex are computed character by character as the code computes them.    *)
(* Option<T> is a sequence of length 0 (None) or 1 (Some).                 *)
(* WrapperResult<T> is [tag |-> "Ok", val |-> v] or                        *)
(* [tag |-> "Err", val |-> "Skip"].                                        *)
(* A TokenStream is the sequence of the items it holds.                    *)
(*                                                                         *)
(* Every identifier of the declarations drawn below is a lexically valid   *)
(* Rust identifier, so format_ident! never panics; panics are not part of  *)
(* the model.                                                              *)
(***************************************************************************)
EXTENDS Integers, Sequences, FiniteSets, TLC

VARIABLES tu, pc, functions, widgets, last

vars == <<tu, pc, functions, widgets, last>>

(* ---------------------------------------------------------------------- *)
(* Bounds                                                                  *)
(* ---------------------------------------------------------------------- *)

\* how many declarations of the header pool a translation unit may draw from
PoolSize == 15

\* how many declarations one translation unit holds at most
MaxDecls == 5

(* ---------------------------------------------------------------------- *)
(* String primitives of the Rust standard library, as the code uses them   *)
(* ---------------------------------------------------------------------- *)

Range(s) == {s[i] : i \in 1..Len(s)}

\* str::starts_with
StartsWith(s, p) == Len(p) <= Len(s) /\ SubSeq(s, 1, Len(p)) = p

\* str::ends_with
EndsWith(s, p) == Len(p) <= Len(s) /\ SubSeq(s, Len(s) - Len(p) + 1, Len(s)) = p

\* str::contains
Contains(s, p) == \E i \in 1..(Len(s) - Len(p) + 1) : SubSeq(s, i, i + Len(p) - 1) = p

\* str::replace(p, ""): every non-overlapping occurrence of p, left to right
RECURSIVE Replace(_, _)
Replace(s, p) ==
    IF s = <<>> THEN <<>>
    ELSE IF StartsWith(s, p) THEN Replace(SubSeq(s, Len(p) + 1, Len(s)), p)
    ELSE <<Head(s)>> \o Replace(Tail(s), p)

(* ---------------------------------------------------------------------- *)
(* Results                                                                 *)
(* ---------------------------------------------------------------------- *)

Ok(v) == [tag |-> "Ok", val |-> v]

Skip == [tag |-> "Err", val |-> "Skip"]

(* ---------------------------------------------------------------------- *)
(* Constants of the program                                                *)
(* ---------------------------------------------------------------------- *)

LIB_PREFIX == <<"l", "v", "_">>

\* the table as a set of (key, value) pairs
TYPE_MAPPINGS ==
    { <<<<"u", "i", "n", "t", "1", "6", "_", "t">>, "u16">>,
      <<<<"i", "n", "t", "3", "2", "_", "t">>, "i32">>,
      <<<<"u", "i", "n", "t", "8", "_", "t">>, "u8">>,
      <<<<"b", "o", "o", "l">>, "bool">>,
      <<<<"_", "B", "o", "o", "l">>, "bool">>,
      <<<<"c", "o", "n", "s", "t", " ", "c", "h", "a", "r", " ", "*">>, "&str">> }

\* HashMap::get: Some(value) or None
TypeMappingsGet(key) ==
    IF \E e \in TYPE_MAPPINGS : e[1] = key
    THEN <<(CHOOSE e \in TYPE_MAPPINGS : e[1] = key)[2]>>
    ELSE <<>>

(* ---------------------------------------------------------------------- *)
(* Declaration model                                                       *)
(* ---------------------------------------------------------------------- *)

LvTypeNew(typ) == [typ |-> typ]

LvArgNew(name, typ) == [name |-> name, typ |-> typ]

LvFuncNew(name, args, ret) == [name |-> name, args |-> args, ret |-> ret]

LvWidgetNew(name, methods) == [name |-> name, methods |-> methods]

is_const(t) == StartsWith(t.typ, <<"c", "o", "n", "s", "t", " ">>)

is_str(t) == EndsWith(t.typ, <<"c", "h", "a", "r", " ", "*">>)

is_method(f) ==
    IF Len(f.args) > 0
    THEN Contains(f.args[1].typ.typ, <<"l", "v", "_", "o", "b", "j", "_", "t">>)
    ELSE FALSE

(* ---------------------------------------------------------------------- *)
(* Type mapper                                                             *)
(* ---------------------------------------------------------------------- *)

\* the suffix test decides before the table is consulted
LvTypeCodeSuffixFirst(t) ==
    IF is_str(t) THEN Ok("&str")
    ELSE LET found == TypeMappingsGet(t.typ)
         IN  IF found # <<>> THEN Ok(found[1]) ELSE Skip

LvTypeCode(t) ==
    LET found == TypeMappingsGet(t.typ)
    IN  IF found # <<>>
        THEN (IF is_str(t) THEN Ok("&str") ELSE Ok(found[1]))
        ELSE Skip

(* ---------------------------------------------------------------------- *)
(* Argument emission                                                       *)
(* ---------------------------------------------------------------------- *)

\* the spellings syn refuses as a plain identifier, among the names used here
RustKeywords == { <<"t", "y", "p", "e">>, <<"r", "e", "f">>, <<"m", "o", "v", "e">>, <<"i", "n">>, <<"f", "n">>, <<"m", "o", "d">>, <<"u", "s", "e">> }

get_name_ident(arg) ==
    IF arg.name \in RustKeywords THEN <<"r", "#">> \o arg.name ELSE arg.name

get_processing(arg) ==
    IF is_str(arg.typ)
    THEN << [stmt |-> "let_cstring_new", ident |-> get_name_ident(arg)] >>
    ELSE << >>

\* every value is passed through under its own name
get_value_usage_plain(arg) ==
    [expr |-> "value", ident |-> get_name_ident(arg)]

get_value_usage(arg) ==
    IF is_str(arg.typ)
    THEN [expr |-> "as_ptr", ident |-> get_name_ident(arg)]
    ELSE [expr |-> "value", ident |-> get_name_ident(arg)]

LvArgCode(arg) ==
    LET name == get_name_ident(arg)
        typ  == LvTypeCode(arg.typ)
    IN  IF typ.tag = "Err" THEN typ
        ELSE Ok([ident |-> name, typ |-> typ.val])

(* ---------------------------------------------------------------------- *)
(* Function emission                                                       *)
(* ---------------------------------------------------------------------- *)

\* the name of f with the template of its parent widget removed
new_name(f, parent) == Replace(f.name, LIB_PREFIX \o parent.name \o <<"_">>)

\* the receiver is mutable whatever the first argument is
ReceiverAlwaysMut(arg) == [ident |-> <<"s", "e", "l", "f">>, typ |-> "&mut self"]

Receiver(arg) ==
    IF is_const(arg.typ)
    THEN [ident |-> <<"s", "e", "l", "f">>, typ |-> "&self"]
    ELSE [ident |-> <<"s", "e", "l", "f">>, typ |-> "&mut self"]

RECURSIVE args_decl(_, _, _)
args_decl(f, i, args) ==
    IF i > Len(f.args) THEN args
    ELSE LET next_arg == IF i = 1 THEN Receiver(f.args[i])
                         ELSE LvArgCode(f.args[i]).val
         IN  args_decl(f, i + 1, IF args = <<>> THEN <<next_arg>> ELSE args \o <<next_arg>>)

RECURSIVE args_processing(_, _, _)
args_processing(f, i, args) ==
    IF i > Len(f.args) THEN args
    ELSE LET next_arg == IF i = 1 THEN <<>> ELSE get_processing(f.args[i])
         IN  args_processing(f, i + 1, IF args = <<>> THEN next_arg ELSE args \o next_arg)

RECURSIVE args_call(_, _, _)
args_call(f, i, args) ==
    IF i > Len(f.args) THEN args
    ELSE LET next_arg == IF i = 1 THEN [expr |-> "raw", ident |-> <<"s", "e", "l", "f">>]
                         ELSE get_value_usage(f.args[i])
         IN  args_call(f, i + 1, IF args = <<>> THEN <<next_arg>> ELSE args \o <<next_arg>>)

Constructor(f) ==
    [kind               |-> "constructor",
     func_name          |-> <<"n", "e", "w">>,
     original_func_name |-> f.name,
     args_decl          |-> << [ident |-> <<"p", "a", "r", "e", "n", "t">>, typ |-> "&mut C"] >>,
     args_processing    |-> << >>,
     args_call          |-> << [expr |-> "raw", ident |-> <<"p", "a", "r", "e", "n", "t">>],
                               [expr |-> "null_mut", ident |-> <<>>] >>]

Method(f, parent) ==
    [kind               |-> "method",
     func_name          |-> new_name(f, parent),
     original_func_name |-> f.name,
     args_decl          |-> args_decl(f, 1, <<>>),
     args_processing    |-> args_processing(f, 1, <<>>),
     args_call          |-> args_call(f, 1, <<>>)]

\* the argument check starts at the first argument
AllArgsGenerateFromFirst(f) ==
    \A i \in 1..Len(f.args) : LvArgCode(f.args[i]).tag = "Ok"

\* all arguments can be generated, the first (self) skipped
AllArgsGenerate(f) ==
    \A i \in 2..Len(f.args) : LvArgCode(f.args[i]).tag = "Ok"

\* the return-type check comes before the constructor
LvFuncCodeRetFirst(f, parent) ==
    IF f.ret # <<>> THEN Skip
    ELSE IF new_name(f, parent) = <<"c", "r", "e", "a", "t", "e">> THEN Ok(Constructor(f))
    ELSE IF ~AllArgsGenerate(f) THEN Skip
    ELSE Ok(Method(f, parent))

LvFuncCode(f, parent) ==
    IF new_name(f, parent) = <<"c", "r", "e", "a", "t", "e">> THEN Ok(Constructor(f))
    ELSE IF f.ret # <<>> THEN Skip
    ELSE IF ~AllArgsGenerate(f) THEN Skip
    ELSE Ok(Method(f, parent))

(* ---------------------------------------------------------------------- *)
(* Widget emission                                                         *)
(* ---------------------------------------------------------------------- *)

LowerCase == <<"a", "b", "c", "d", "e", "f", "g", "h", "i", "j", "k", "l", "m", "n", "o", "p", "q", "r", "s", "t", "u", "v", "w", "x", "y", "z">>

UpperCase == <<"A", "B", "C", "D", "E", "F", "G", "H", "I", "J", "K", "L", "M", "N", "O", "P", "Q", "R", "S", "T", "U", "V", "W", "X", "Y", "Z">>

\* Inflector's to_pascal_case on a single lower-case word
to_pascal_case(s) ==
    IF s # <<>> /\ \E k \in 1..Len(LowerCase) : LowerCase[k] = s[1]
    THEN <<UpperCase[CHOOSE k \in 1..Len(LowerCase) : LowerCase[k] = s[1]]>> \o Tail(s)
    ELSE s

\* Iterator::flat_map over the results: an Ok yields its value, an Err nothing
RECURSIVE FlatMapCode(_, _, _)
FlatMapCode(methods, parent, i) ==
    IF i > Len(methods) THEN <<>>
    ELSE LET r == LvFuncCode(methods[i], parent)
         IN  (IF r.tag = "Ok" THEN <<r.val>> ELSE <<>>) \o FlatMapCode(methods, parent, i + 1)

\* a method that skips makes the widget skip
LvWidgetCodePropagate(w) ==
    IF w.name = <<"o", "b", "j">> THEN Skip
    ELSE IF \E i \in 1..Len(w.methods) : LvFuncCode(w.methods[i], w).tag = "Err" THEN Skip
    ELSE Ok([widget_name |-> to_pascal_case(w.name),
             methods     |-> FlatMapCode(w.methods, w, 1)])

LvWidgetCode(w) ==
    IF w.name = <<"o", "b", "j">> THEN Skip
    ELSE Ok([widget_name |-> to_pascal_case(w.name),
             methods     |-> FlatMapCode(w.methods, w, 1)])

(* ---------------------------------------------------------------------- *)
(* Widget extractor                                                        *)
(* ---------------------------------------------------------------------- *)

\* length of the run of characters other than "_" that starts at position i
RECURSIVE RunNoUnderscore(_, _)
RunNoUnderscore(s, i) ==
    IF i > Len(s) \/ s[i] = "_" THEN 0 ELSE 1 + RunNoUnderscore(s, i + 1)

\* Regex ^lv_([^_]+)_create$ : the captures, <<>> when there is no match
create_func_captures(name) ==
    IF ~StartsWith(name, LIB_PREFIX) THEN <<>>
    ELSE LET from == Len(LIB_PREFIX) + 1
             run  == RunNoUnderscore(name, from)
         IN  IF run >= 1 /\ SubSeq(name, from + run, Len(name)) = <<"_", "c", "r", "e", "a", "t", "e">>
             THEN <<SubSeq(name, from, from + run - 1)>>
             ELSE <<>>

create_func_is_match(name) == create_func_captures(name) # <<>>

\* the arity of the create function is not looked at
get_widget_names_any_arity(fs) ==
    LET F[i \in 0..Len(fs)] ==
            IF i = 0 THEN <<>>
            ELSE IF create_func_is_match(fs[i].name)
                 THEN F[i - 1] \o create_func_captures(fs[i].name)
                 ELSE F[i - 1]
    IN  F[Len(fs)]

get_widget_names(fs) ==
    LET F[i \in 0..Len(fs)] ==
            IF i = 0 THEN <<>>
            ELSE IF create_func_is_match(fs[i].name) /\ Len(fs[i].args) = 2
                 THEN F[i - 1] \o create_func_captures(fs[i].name)
                 ELSE F[i - 1]
    IN  F[Len(fs)]

\* HashMap::entry(k).or_insert_with(new widget).methods.push(f)
EntryPush(ws, widget_name, f) ==
    [k \in DOMAIN ws \cup {widget_name} |->
        IF k = widget_name
        THEN LvWidgetNew(widget_name,
                 (IF k \in DOMAIN ws THEN ws[k].methods ELSE <<>>) \o <<f>>)
        ELSE ws[k]]

\* the body of the fold: the loop over the widget names for one function
RECURSIVE AssignFunction(_, _, _, _)
AssignFunction(ws, f, widget_names, j) ==
    IF j > Len(widget_names) THEN ws
    ELSE LET widget_name == widget_names[j]
         IN  IF StartsWith(f.name, LIB_PREFIX \o widget_name) /\ is_method(f)
             THEN AssignFunction(EntryPush(ws, widget_name, f), f, widget_names, j + 1)
             ELSE AssignFunction(ws, f, widget_names, j + 1)

EmptyMap == [k \in {} |-> <<>>]

\* every discovered name starts with a widget of its own
WidgetMapPrecreated(fs) ==
    LET widget_names == get_widget_names(fs)
        start == [k \in Range(widget_names) |-> LvWidgetNew(k, <<>>)]
        W[i \in 0..Len(fs)] ==
            IF i = 0 THEN start
            ELSE AssignFunction(W[i - 1], fs[i], widget_names, 1)
    IN  W[Len(fs)]

\* the HashMap the fold of extract_widgets builds
WidgetMap(fs) ==
    LET widget_names == get_widget_names(fs)
        W[i \in 0..Len(fs)] ==
            IF i = 0 THEN EmptyMap
            ELSE AssignFunction(W[i - 1], fs[i], widget_names, 1)
    IN  W[Len(fs)]

\* HashMap::values(): the widgets in an order the program does not choose
ValueOrders(ws) ==
    { s \in [1..Cardinality(DOMAIN ws) -> DOMAIN ws] :
        \A i, j \in 1..Cardinality(DOMAIN ws) : i # j => s[i] # s[j] }

extract_widgets(fs) ==
    LET ws == WidgetMap(fs)
    IN  { [i \in 1..Cardinality(DOMAIN ws) |-> ws[order[i]]] : order \in ValueOrders(ws) }

(* ---------------------------------------------------------------------- *)
(* Declaration loader                                                      *)
(* ---------------------------------------------------------------------- *)

Entity(kind, linkage, func) == [kind |-> kind, linkage |-> linkage, func |-> func]

RECURSIVE load_function_definitions(_)
load_function_definitions(entities) ==
    IF entities = <<>> THEN <<>>
    ELSE LET e == Head(entities)
         IN  (IF /\ e.kind = "FunctionDecl"
                 /\ e.linkage # "Internal"
                 /\ StartsWith(e.func.name, LIB_PREFIX)
              THEN <<e.func>> ELSE <<>>)
             \o load_function_definitions(Tail(entities))

RECURSIVE get_function_names(_)
get_function_names(fs) ==
    IF fs = <<>> THEN <<>> ELSE <<Head(fs).name>> \o get_function_names(Tail(fs))

(* ---------------------------------------------------------------------- *)
(* The declarations a translation unit is drawn from                       *)
(* ---------------------------------------------------------------------- *)

Obj == LvTypeNew(<<"l", "v", "_", "o", "b", "j", "_", "t", " ", "*">>)

ConstObj == LvTypeNew(<<"c", "o", "n", "s", "t", " ", "l", "v", "_", "o", "b", "j", "_", "t", " ", "*">>)

External(func) == Entity("FunctionDecl", "External", func)

HeaderPool ==
    << External(LvFuncNew(<<"l", "v", "_", "o", "b", "j", "_", "c", "r", "e", "a", "t", "e">>,
                   << LvArgNew(<<"p", "a", "r", "e", "n", "t">>, Obj), LvArgNew(<<"c", "o", "p", "y">>, ConstObj) >>, <<Obj>>)),
       External(LvFuncNew(<<"l", "v", "_", "b", "t", "n", "_", "c", "r", "e", "a", "t", "e">>,
                   << LvArgNew(<<"p", "a", "r">>, Obj), LvArgNew(<<"c", "o", "p", "y">>, ConstObj) >>, <<Obj>>)),
       External(LvFuncNew(<<"l", "v", "_", "d", "o", "_", "s", "o", "m", "e", "t", "h", "i", "n", "g">>,
                   << LvArgNew(<<"p", "a", "r", "e", "n", "t">>, Obj), LvArgNew(<<"c", "o", "p", "y", "_", "f", "r", "o", "m">>, ConstObj) >>, <<>>)),
       External(LvFuncNew(<<"l", "v", "_", "i", "n", "v", "a", "l", "i", "d", "_", "c", "r", "e", "a", "t", "e">>,
                   << LvArgNew(<<"p", "a", "r", "e", "n", "t">>, Obj) >>, <<>>)),
       External(LvFuncNew(<<"l", "v", "_", "c", "b", "_", "c", "r", "e", "a", "t", "e">>,
                   << LvArgNew(<<"p", "a", "r", "e", "n", "t">>, LvTypeNew(<<"a", "b", "c">>)),
                      LvArgNew(<<"c", "o", "p", "y", "_", "f", "r", "o", "m">>, LvTypeNew(<<"b", "c", "f">>)) >>, <<>>)),
       External(LvFuncNew(<<"l", "v", "_", "b", "t", "n", "m", "a", "t", "r", "i", "x", "_", "c", "r", "e", "a", "t", "e">>,
                   << LvArgNew(<<"p", "a", "r">>, Obj), LvArgNew(<<"c", "o", "p", "y">>, ConstObj) >>, <<Obj>>)),
       External(LvFuncNew(<<"l", "v", "_", "b", "t", "n", "m", "a", "t", "r", "i", "x", "_", "s", "e", "t", "_", "t", "e", "x", "t">>,
                   << LvArgNew(<<"b", "t", "n", "m">>, Obj),
                      LvArgNew(<<"t", "e", "x", "t">>, LvTypeNew(<<"c", "o", "n", "s", "t", " ", "c", "h", "a", "r", " ", "*">>)),
                      LvArgNew(<<"t", "y", "p", "e">>, LvTypeNew(<<"u", "i", "n", "t", "1", "6", "_", "t">>)),
                      LvArgNew(<<"f", "m", "t">>, LvTypeNew(<<"c", "o", "n", "s", "t", " ", "c", "h", "a", "r", " ", "*">>)) >>, <<>>)),
       External(LvFuncNew(<<"l", "v", "_", "b", "t", "n", "_", "g", "e", "t", "_", "s", "t", "a", "t", "e">>,
                   << LvArgNew(<<"b", "t", "n">>, ConstObj) >>, <<LvTypeNew(<<"u", "i", "n", "t", "8", "_", "t">>)>>)),
       External(LvFuncNew(<<"l", "v", "_", "b", "t", "n", "_", "s", "e", "t", "_", "o", "n">>,
                   << LvArgNew(<<"b", "t", "n">>, ConstObj),
                      LvArgNew(<<"o", "n">>, LvTypeNew(<<"b", "o", "o", "l">>)),
                      LvArgNew(<<"i", "d">>, LvTypeNew(<<"i", "n", "t", "3", "2", "_", "t">>)) >>, <<>>)),
       External(LvFuncNew(<<"l", "v", "_", "b", "t", "n", "_", "s", "e", "t", "_", "n", "a", "m", "e">>,
                   << LvArgNew(<<"b", "t", "n">>, Obj),
                      LvArgNew(<<"n", "a", "m", "e">>, LvTypeNew(<<"c", "h", "a", "r", " ", "*">>)) >>, <<>>)),
       External(LvFuncNew(<<"l", "v", "_", "b", "t", "n", "_", "s", "e", "t", "_", "s", "t", "y", "l", "e">>,
                   << LvArgNew(<<"b", "t", "n">>, Obj),
                      LvArgNew(<<"p", "a", "d">>, LvTypeNew(<<"u", "i", "n", "t", "8", "_", "t">>)),
                      LvArgNew(<<"s", "t", "y", "l", "e">>, LvTypeNew(<<"l", "v", "_", "s", "t", "y", "l", "e", "_", "t", " ", "*">>)),
                      LvArgNew(<<"e", "n">>, LvTypeNew(<<"_", "B", "o", "o", "l">>)) >>, <<>>)),
       External(LvFuncNew(<<"l", "v", "_", "a", "r", "c", "_", "c", "r", "e", "a", "t", "e">>,
                   << LvArgNew(<<"p", "a", "r">>, Obj), LvArgNew(<<"c", "o", "p", "y">>, ConstObj),
                      LvArgNew(<<"x">>, LvTypeNew(<<"a", "b", "c">>)) >>, <<Obj>>)),
       Entity("FunctionDecl", "Internal",
              LvFuncNew(<<"l", "v", "_", "b", "t", "n", "_", "r", "e", "s", "e", "t">>, << LvArgNew(<<"b", "t", "n">>, Obj) >>, <<>>)),
       External(LvFuncNew(<<"_", "l", "v", "_", "m", "e", "m", "_", "i", "n", "i", "t">>, <<>>, <<>>)),
       Entity("VarDecl", "External", LvFuncNew(<<"l", "v", "_", "f", "o", "n", "t", "_", "d", "e", "f", "a", "u", "l", "t">>, <<>>, <<>>)),
       External(LvFuncNew(<<"l", "v", "_", "a", "r", "c", "_", "s", "e", "t", "_", "b", "g", "_", "e", "n", "d", "_", "a", "n", "g", "l", "e">>,
                   << LvArgNew(<<"a", "r", "c">>, Obj),
                      LvArgNew(<<"e", "n", "d">>, LvTypeNew(<<"u", "i", "n", "t", "1", "6", "_", "t">>)) >>, <<>>)) >>

Min(a, b) == IF a < b THEN a ELSE b

\* the declarations of pool at the positions of S, in the order of the pool
RECURSIVE Pick(_, _, _)
Pick(pool, i, S) ==
    IF i > Len(pool) THEN <<>>
    ELSE (IF i \in S THEN <<pool[i]>> ELSE <<>>) \o Pick(pool, i + 1, S)

TranslationUnits ==
    { Pick(HeaderPool, 1, S) :
        S \in { S \in SUBSET (1..Min(PoolSize, Len(HeaderPool))) : Cardinality(S) <= MaxDecls } }

\* the type spellings that occur in a list of functions
TypesOf(fs) ==
    UNION { {fs[i].args[j].typ : j \in 1..Len(fs[i].args)} \cup Range(fs[i].ret) :
            i \in 1..Len(fs) }

\* parents a caller builds by hand, as the tests do: an empty widget named
\* after a create function of whatever arity
HandBuiltParents(fs) ==
    { LvWidgetNew(n, <<>>) : n \in Range(get_widget_names_any_arity(fs)) }

(* ---------------------------------------------------------------------- *)
(* State machine                                                           *)
(* ---------------------------------------------------------------------- *)

Call(op, arg, parent, res) == [op |-> op, arg |-> arg, parent |-> parent, res |-> res]

NoCall == Call("none", <<>>, <<>>, <<>>)

Init ==
    /\ tu \in TranslationUnits
    /\ pc = "start"
    /\ functions = <<>>
    /\ widgets = <<>>
    /\ last = NoCall

\* CodeGen::new
New ==
    /\ pc = "start"
    /\ pc' = "ready"
    /\ functions' = load_function_definitions(tu)
    /\ widgets' \in extract_widgets(functions')
    /\ UNCHANGED <<tu, last>>

\* The operations below are pure queries over the built model: a run records
\* one of them in `last`, since a second query reaches no result the first
\* cannot reach.

\* CodeGen::get_function_names
GetFunctionNames ==
    /\ pc = "ready"
    /\ last = NoCall
    /\ last' = Call("get_function_names", <<>>, <<>>, get_function_names(functions))
    /\ UNCHANGED <<tu, pc, functions, widgets>>

\* CodeGen::get_widget_names on the loaded functions
GetWidgetNames ==
    /\ pc = "ready"
    /\ last = NoCall
    /\ last' = Call("get_widget_names", functions, <<>>, get_widget_names(functions))
    /\ UNCHANGED <<tu, pc, functions, widgets>>

\* LvWidget::code on a widget of get_widgets()
WidgetCode ==
    /\ pc = "ready"
    /\ last = NoCall
    /\ \E i \in 1..Len(widgets) :
          last' = Call("widget_code", widgets[i], <<>>, LvWidgetCode(widgets[i]))
    /\ UNCHANGED <<tu, pc, functions, widgets>>

\* LvFunc::code on a loaded function under an extracted or a hand-built parent
FuncCode ==
    /\ pc = "ready"
    /\ last = NoCall
    /\ \E f \in Range(functions), parent \in Range(widgets) \cup HandBuiltParents(functions) :
          last' = Call("func_code", f, parent, LvFuncCode(f, parent))
    /\ UNCHANGED <<tu, pc, functions, widgets>>

\* LvType::code on a type of a loaded function
TypeCode ==
    /\ pc = "ready"
    /\ last = NoCall
    /\ \E t \in TypesOf(functions) :
          last' = Call("type_code", t, <<>>, LvTypeCode(t))
    /\ UNCHANGED <<tu, pc, functions, widgets>>

Next ==
    \/ New
    \/ GetFunctionNames
    \/ GetWidgetNames
    \/ WidgetCode
    \/ FuncCode
    \/ TypeCode

Spec == Init /\ [][Next]_vars

(* ---------------------------------------------------------------------- *)
(* Properties                                                              *)
(* ---------------------------------------------------------------------- *)

\* name is lv_<w>_create for a non-empty w without underscore
IsCreateName(name, w) ==
    /\ name = LIB_PREFIX \o w \o <<"_", "c", "r", "e", "a", "t", "e">>
    /\ w # <<>>
    /\ \A i \in 1..Len(w) : w[i] # "_"

SubStrings(s) == { SubSeq(s, i, j) : i, j \in 1..Len(s) }

TestScenarioNames ==
    << <<"l", "v", "_", "o", "b", "j", "_", "c", "r", "e", "a", "t", "e">>, <<"l", "v", "_", "b", "t", "n", "_", "c", "r", "e", "a", "t", "e">>, <<"l", "v", "_", "d", "o", "_", "s", "o", "m", "e", "t", "h", "i", "n", "g">>,
       <<"l", "v", "_", "i", "n", "v", "a", "l", "i", "d", "_", "c", "r", "e", "a", "t", "e">>, <<"l", "v", "_", "c", "b", "_", "c", "r", "e", "a", "t", "e">> >>

\* C1: get_widget_names returns <w> exactly for the functions named
\* lv_<w>_create (w non-empty, without underscore) that have exactly two
\* arguments; for lv_obj_create/2, lv_btn_create/2, lv_do_something/2,
\* lv_invalid_create/1, lv_cb_create/2 the result is {obj, btn, cb}.
C1_WidgetNames ==
    last.op = "get_widget_names" =>
        LET fs  == last.arg
            res == Range(last.res)
        IN  /\ \A w \in res :
                  \E f \in Range(fs) : IsCreateName(f.name, w) /\ Len(f.args) = 2
            /\ \A f \in Range(fs) : \A w \in SubStrings(f.name) :
                  (IsCreateName(f.name, w) /\ Len(f.args) = 2) => w \in res
            /\ get_function_names(fs) = TestScenarioNames =>
                  /\ res = { <<"o", "b", "j">>, <<"b", "t", "n">>, <<"c", "b">> }
                  /\ Len(last.res) = 3

C1_Witness ==
    /\ last.op = "get_widget_names"
    /\ get_function_names(last.arg) = TestScenarioNames
    /\ Range(last.res) = { <<"o", "b", "j">>, <<"b", "t", "n">>, <<"c", "b">> }

\* the positions of the methods of w whose own emission does not skip
EmittedMethods(w) ==
    { i \in 1..Len(w.methods) : LvFuncCode(w.methods[i], w).tag = "Ok" }

\* C2: widget emission skips if and only if the widget is named "obj";
\* otherwise it succeeds and its implementation block holds the code of
\* exactly the methods that did not skip, in method-list order.
C2_WidgetEmission ==
    last.op = "widget_code" =>
        LET w       == last.arg
            emitted == EmittedMethods(w)
        IN  /\ last.res.tag = "Err" <=> w.name = <<"o", "b", "j">>
            /\ last.res.tag = "Err" => last.res.val = "Skip"
            /\ last.res.tag = "Ok" =>
                  /\ Len(last.res.val.methods) = Cardinality(emitted)
                  /\ \A i \in emitted :
                        last.res.val.methods[Cardinality({j \in emitted : j <= i})]
                            = LvFuncCode(w.methods[i], w).val

C2_Witness ==
    /\ last.op = "widget_code"
    /\ last.res.tag = "Ok"
    /\ Len(last.res.val.methods) >= 1
    /\ Len(last.res.val.methods) < Len(last.arg.methods)

\* C3 as stated: the type mapper returns the string-reference type for every
\* spelling that ends with "char *", "char *" without const included.
C3_SuffixAlwaysStr ==
    (last.op = "type_code" /\ EndsWith(last.arg.typ, <<"c", "h", "a", "r", " ", "*">>)) =>
        (last.res.tag = "Ok" /\ last.res.val = "&str")

\* C3 amended: among the spellings that end with "char *" the type mapper
\* returns the string-reference type for "const char *", the one that is a
\* key of the table, and skips every other, "char *" without const included.
C3_StrOnlyForTableKey ==
    (last.op = "type_code" /\ EndsWith(last.arg.typ, <<"c", "h", "a", "r", " ", "*">>)) =>
        IF last.arg.typ = <<"c", "o", "n", "s", "t", " ", "c", "h", "a", "r", " ", "*">>
        THEN last.res.tag = "Ok" /\ last.res.val = "&str"
        ELSE last.res.tag = "Err" /\ last.res.val = "Skip"

C3_Witness ==
    /\ last.op = "type_code"
    /\ last.arg.typ = <<"c", "h", "a", "r", " ", "*">>
    /\ last.res.tag = "Err"

\* C4: on the method path (local name other than "create") LvFunc::code
\* succeeds if and only if the function has no return type and the type of
\* every argument after the first maps; otherwise the result is Skip. The
\* first argument's type need not map.
C4_MethodPath ==
    (last.op = "func_code" /\ new_name(last.arg, last.parent) # <<"c", "r", "e", "a", "t", "e">>) =>
        LET f == last.arg
        IN  /\ last.res.tag = "Ok" <=>
                  /\ f.ret = <<>>
                  /\ \A i \in 2..Len(f.args) : LvTypeCode(f.args[i].typ).tag = "Ok"
            /\ last.res.tag = "Ok" => last.res.val.kind = "method"
            /\ last.res.tag = "Err" => last.res.val = "Skip"

C4_Witness ==
    /\ last.op = "func_code"
    /\ new_name(last.arg, last.parent) # <<"c", "r", "e", "a", "t", "e">>
    /\ last.res.tag = "Ok"
    /\ Len(last.arg.args) >= 2
    /\ LvTypeCode(last.arg.args[1].typ).tag = "Err"

\* C5: a function whose local name under its parent is "create" always
\* yields the constructor, whatever its return type and arguments; the
\* constructor takes the parent as its only parameter and calls the native
\* create function with the parent's raw handle and a null second argument.
C5_Constructor ==
    (last.op = "func_code" /\ new_name(last.arg, last.parent) = <<"c", "r", "e", "a", "t", "e">>) =>
        /\ last.res.tag = "Ok"
        /\ last.res.val.kind = "constructor"
        /\ last.res.val.original_func_name = last.arg.name
        /\ last.res.val.args_decl = << [ident |-> <<"p", "a", "r", "e", "n", "t">>, typ |-> "&mut C"] >>
        /\ last.res.val.args_call = << [expr |-> "raw", ident |-> <<"p", "a", "r", "e", "n", "t">>],
                                       [expr |-> "null_mut", ident |-> <<>>] >>

C5_Witness ==
    /\ last.op = "func_code"
    /\ new_name(last.arg, last.parent) = <<"c", "r", "e", "a", "t", "e">>
    /\ last.arg.ret # <<>>
    /\ Len(last.arg.args) = 3
    /\ last.res.tag = "Ok"

\* the identifier an argument name is emitted as: itself, or its raw form
IsIdentOf(ident, name) == ident = name \/ ident = <<"r", "#">> \o name

StrArgs(f) ==
    { i \in 2..Len(f.args) : EndsWith(f.args[i].typ.typ, <<"c", "h", "a", "r", " ", "*">>) }

\* C6: in an emitted method every argument whose type ends in "char *" gets
\* an owned-buffer construction statement before the call and passes the
\* buffer's raw pointer; every other argument gets no statement and is
\* passed unchanged under its own name; statements and call-site arguments
\* follow the declaration order of the arguments.
C6_StringMarshalling ==
    (last.op = "func_code" /\ last.res.tag = "Ok" /\ last.res.val.kind = "method") =>
        LET f    == last.arg
            m    == last.res.val
            strs == StrArgs(f)
        IN  /\ Len(m.args_call) = Len(f.args)
            /\ Len(m.args_processing) = Cardinality(strs)
            /\ \A i \in 2..Len(f.args) :
                  /\ IsIdentOf(m.args_call[i].ident, f.args[i].name)
                  /\ m.args_call[i].ident = m.args_decl[i].ident
                  /\ IF i \in strs
                     THEN /\ m.args_call[i].expr = "as_ptr"
                          /\ m.args_processing[Cardinality({j \in strs : j <= i})]
                                = [stmt |-> "let_cstring_new", ident |-> m.args_call[i].ident]
                     ELSE m.args_call[i].expr = "value"

C6_Witness ==
    /\ last.op = "func_code"
    /\ last.res.tag = "Ok"
    /\ last.res.val.kind = "method"
    /\ Cardinality(StrArgs(last.arg)) >= 2
    /\ \E i \in 2..Len(last.arg.args) : i \notin StrArgs(last.arg)

\* C7: in an emitted method the receiver is immutable if and only if the
\* type of the first argument starts with "const "; the remaining arguments
\* are the parameters, in declaration order, each with its mapped type; the
\* first argument is no named parameter.
C7_Receiver ==
    (/\ last.op = "func_code" /\ last.res.tag = "Ok"
     /\ last.res.val.kind = "method" /\ Len(last.arg.args) >= 1) =>
        LET f == last.arg
            m == last.res.val
        IN  /\ Len(m.args_decl) = Len(f.args)
            /\ m.args_decl[1].ident = <<"s", "e", "l", "f">>
            /\ m.args_decl[1].typ =
                  (IF StartsWith(f.args[1].typ.typ, <<"c", "o", "n", "s", "t", " ">>) THEN "&self" ELSE "&mut self")
            /\ \A i \in 2..Len(f.args) :
                  /\ IsIdentOf(m.args_decl[i].ident, f.args[i].name)
                  /\ m.args_decl[i].typ = LvTypeCode(f.args[i].typ).val

C7_Witness ==
    /\ last.op = "func_code"
    /\ last.res.tag = "Ok"
    /\ last.res.val.kind = "method"
    /\ Len(last.arg.args) >= 3
    /\ StartsWith(last.arg.args[1].typ.typ, <<"c", "o", "n", "s", "t", " ">>)
    /\ last.res.val.args_decl[1].typ = "&self"

WidgetNameSet == { widgets[i].name : i \in 1..Len(widgets) }

\* a function that extract_widgets can attach to the widget named w
Qualifies(f, w) ==
    /\ StartsWith(f.name, LIB_PREFIX \o w)
    /\ Len(f.args) >= 1
    /\ Contains(f.args[1].typ.typ, <<"l", "v", "_", "o", "b", "j", "_", "t">>)

\* C8 as stated: every widget name get_widget_names discovers yields a
\* Widget of extract_widgets, also when no function qualifies as its method.
C8_EveryNameYieldsWidget ==
    pc = "ready" => WidgetNameSet = Range(get_widget_names(functions))

\* C8 amended: the names of the extracted widgets are the discovered names
\* for which at least one function qualifies as a method (its name starts
\* with lv_<name> and its first argument's type contains "lv_obj_t"); a
\* discovered name without such a function yields no Widget, and no
\* extracted widget has an empty method list.
C8_NamesWithMethods ==
    pc = "ready" =>
        /\ WidgetNameSet =
              { w \in Range(get_widget_names(functions)) :
                  \E f \in Range(functions) : Qualifies(f, w) }
        /\ Len(widgets) = Cardinality(WidgetNameSet)
        /\ \A i \in 1..Len(widgets) : widgets[i].methods # <<>>

C8_Witness ==
    /\ pc = "ready"
    /\ widgets # <<>>
    /\ \E w \in Range(get_widget_names(functions)) : w \notin WidgetNameSet

\* C9: after extract_widgets no function is in the method lists of two
\* different widgets, also when one widget name is a prefix of another, and
\* every function in a method list is a method whose name starts with the
\* lv_<widget> prefix of a discovered name.
C9_SingleOwner ==
    pc = "ready" =>
        /\ \A i, j \in 1..Len(widgets) :
              i # j => Range(widgets[i].methods) \cap Range(widgets[j].methods) = {}
        /\ \A i \in 1..Len(widgets) : \A f \in Range(widgets[i].methods) :
              \E w \in Range(get_widget_names(functions)) : Qualifies(f, w)

\* C10: for every extracted widget w and every function f of its method
\* list, the local name LvFunc::code computes is f's name with the single
\* leading lv_<w>_ removed; it never begins with lv_, and it is "create"
\* only for the function named lv_<w>_create.
C10_LocalName ==
    pc = "ready" =>
        \A i \in 1..Len(widgets) : \A f \in Range(widgets[i].methods) :
            LET w     == widgets[i]
                templ == LIB_PREFIX \o w.name \o <<"_">>
                local == new_name(f, w)
            IN  /\ StartsWith(f.name, templ)
                /\ local = SubSeq(f.name, Len(templ) + 1, Len(f.name))
                /\ ~StartsWith(local, LIB_PREFIX)
                /\ local = <<"c", "r", "e", "a", "t", "e">> => f.name = templ \o <<"c", "r", "e", "a", "t", "e">>

====
